---- MODULE Spec2Model ----
(***************************************************************************)
(* Gift-exchange draw (Metastone/noel).                                    *)
(*                                                                         *)
(* Two programs are modelled, one run of either per behaviour:             *)
(*   noel.py         exhaustive strategy: every permutation of the         *)
(*                   participants is filtered, one valid one is chosen     *)
(*                   with random.choice;                                   *)
(*   tirage_noel.py  random retry strategy: candidates are drawn giver by  *)
(*                   giver until one uses no forbidden group.              *)
(* The configuration document (config.yml) and the command line are the    *)
(* inputs; they are drawn from bounded sets in Init.                       *)
(***************************************************************************)
EXTENDS Integers, Sequences, FiniteSets, TLC

\* Largest number of entries of the participants list.
MaxN == 4

NameList == <<"A", "B", "C", "D", "E", "F">>

Range(s) == {s[i] : i \in 1..Len(s)}

RECURSIVE Fact(_)
Fact(n) == IF n <= 1 THEN 1 ELSE n * Fact(n - 1)

Prefix(n) == [i \in 1..n |-> NameList[i]]

----------------------------------------------------------------------------
(* Inputs *)

\* participants: the first n names, or a list that repeats a name.
DuplicateLists ==
    {Prefix(1) \o Prefix(1), Prefix(2) \o Prefix(1), Prefix(2) \o Prefix(2)}

ParticipantLists ==
    {Prefix(n) : n \in 0..MaxN} \cup {p \in DuplicateLists : Len(p) <= MaxN}

\* The names the forbidden groups and transactions mention.
Mentioned == {NameList[i] : i \in 1..4}

\* A forbidden group: two different names in either order, or the first k names.
GroupChoices ==
    ({<<a, b>> : a \in Mentioned, b \in Mentioned}
         \ {<<a, a>> : a \in Mentioned})
        \cup {Prefix(k) : k \in 3..MaxN}

Pair(i, j) == <<NameList[i], NameList[j]>>

\* forbidden_groups: no group, one group, or one of a few lists of two groups
\* (disjoint, overlapping, the same names in both orders).
GroupLists ==
    {<<>>} \cup {<<g>> : g \in GroupChoices}
        \cup {<<Pair(1, 2), Pair(3, 4)>>, <<Pair(1, 2), Pair(2, 3)>>,
              <<Pair(4, 3), Pair(3, 1)>>, <<Pair(2, 1), Pair(1, 2)>>}

Transaction(g, r) == [giver |-> g, receiver |-> r]

Tx(i, j) == Transaction(NameList[i], NameList[j])

TxChoices == {Transaction(a, b) : a \in Mentioned, b \in Mentioned}

\* forbidden_transactions: none, one, or one of a few lists of two.
TxLists ==
    {<<>>} \cup {<<t>> : t \in TxChoices}
        \cup {<<Tx(1, 2), Tx(2, 3)>>, <<Tx(3, 4), Tx(1, 2)>>,
              <<Tx(2, 1), Tx(3, 1)>>, <<Tx(4, 3), Tx(3, 2)>>}

\* --seed on the command line: absent (<<>>) or an integer.
Seeds == {<<>>, <<0>>, <<1>>}

\* time.time() when get_arguments reads it: a value no --seed equals.
Clocks == {7}

AllKeys == {"participants", "forbidden_groups", "forbidden_transactions"}

KeySets == {AllKeys, AllKeys \ {"forbidden_transactions"}}

----------------------------------------------------------------------------
VARIABLES
    prog,                    \* "noel" or "tirage": the script that is run
    keys,                    \* top-level keys of config.yml
    participants,            \* config.yml: participants
    forbidden_groups,        \* config.yml: forbidden_groups
    forbidden_transactions,  \* config.yml: forbidden_transactions (<<>> if no key)
    seedArg,                 \* args.seed
    pc,                      \* position in main
    rand_seed,               \* <<>> until get_arguments returns, then <<seed>>
    config,                  \* what load_configuration returned (<<>> before)
    error,                   \* the ChristmasException reported, if any
    it,                      \* noel: permutations drawn from the iterator
    solutions,               \* noel: get_solutions' list
    solution,                \* the solution printed (noel: list; tirage: dict)
    todo,                    \* tirage: givers the for loop has not reached
    receivers,               \* tirage: receivers not yet assigned
    giver,                   \* tirage: the for loop's variable (<<>> before)
    event                    \* tirage: what the last step of the retry loop did

vars == <<prog, keys, participants, forbidden_groups, forbidden_transactions,
          seedArg, pc, rand_seed, config, error, it, solutions, solution,
          todo, receivers, giver, event>>

doc == <<prog, keys, participants, forbidden_groups, forbidden_transactions,
         seedArg>>

NoError == [kind |-> "", name |-> "", forbidden_kind |-> ""]

Init ==
    /\ prog \in {"noel", "tirage"}
    /\ keys \in KeySets
    /\ participants \in ParticipantLists
    /\ forbidden_groups \in GroupLists
    /\ forbidden_transactions \in
           IF "forbidden_transactions" \in keys THEN TxLists ELSE {<<>>}
    /\ seedArg \in IF prog = "noel" THEN Seeds ELSE {<<>>}
    /\ pc = "start"
    /\ rand_seed = <<>>
    /\ config = <<>>
    /\ error = NoError
    /\ it = 0
    /\ solutions = <<>>
    /\ solution = <<>>
    /\ todo = {}
    /\ receivers = {}
    /\ giver = <<>>
    /\ event = ""

----------------------------------------------------------------------------
(* noel.py *)

\* if args.seed: ... else: rand_seed = time.time()
Truthy(seed) == seed # <<>> /\ seed[1] # 0

get_arguments(seed, now) == IF Truthy(seed) THEN seed[1] ELSE now

GetArguments ==
    /\ prog = "noel"
    /\ pc = "start"
    /\ \E now \in Clocks : rand_seed' = <<get_arguments(seedArg, now)>>
    /\ pc' = "args"
    /\ UNCHANGED <<doc, config, error, it, solutions, solution, todo,
                   receivers, giver, event>>

\* Variant: the schema is validated with ignore_extra_keys=True.
SchemaIgnoringExtraKeys(schema_keys, doc_keys) == schema_keys \subseteq doc_keys

\* Schema({...}).validate(config): a dict schema requires every key it names
\* and, ignore_extra_keys being left False, rejects every other key.
SchemaValid(schema_keys, doc_keys) == doc_keys = schema_keys

spelling_error(name, forbidden_kind) ==
    [kind |-> "spelling", name |-> name, forbidden_kind |-> forbidden_kind]

\* for group in forbidden_groups: for name in group: ...
RECURSIVE CheckGroups(_, _, _, _)
CheckGroups(p, groups, i, j) ==
    IF i > Len(groups) THEN NoError
    ELSE IF j > Len(groups[i]) THEN CheckGroups(p, groups, i + 1, 1)
    ELSE IF groups[i][j] \notin Range(p)
         THEN spelling_error(groups[i][j], "groups")
         ELSE CheckGroups(p, groups, i, j + 1)

\* for transaction in forbidden_transactions: giver, then receiver
RECURSIVE CheckTransactions(_, _, _)
CheckTransactions(p, txs, i) ==
    IF i > Len(txs) THEN NoError
    ELSE IF txs[i].giver \notin Range(p)
         THEN spelling_error(txs[i].giver, "transactions")
    ELSE IF txs[i].receiver \notin Range(p)
         THEN spelling_error(txs[i].receiver, "transactions")
         ELSE CheckTransactions(p, txs, i + 1)

\* Variant: the forbidden transactions are checked before the groups.
load_configuration_transactions_first(k, p, groups, txs) ==
    IF k # AllKeys
    THEN [kind |-> "schema", name |-> "", forbidden_kind |-> ""]
    ELSE IF CheckTransactions(p, txs, 1) # NoError
         THEN CheckTransactions(p, txs, 1)
         ELSE CheckGroups(p, groups, 1, 1)

\* The exception load_configuration raises, NoError when it returns.
load_configuration(k, p, groups, txs) ==
    IF ~SchemaValid(AllKeys, k)
    THEN [kind |-> "schema", name |-> "", forbidden_kind |-> ""]
    ELSE IF CheckGroups(p, groups, 1, 1) # NoError
         THEN CheckGroups(p, groups, 1, 1)
         ELSE CheckTransactions(p, txs, 1)

LoadConfiguration ==
    /\ prog = "noel"
    /\ pc = "args"
    /\ LET e == load_configuration(keys, participants, forbidden_groups,
                                   forbidden_transactions)
       IN IF e = NoError
          THEN /\ config' = <<participants, forbidden_groups,
                              forbidden_transactions>>
               /\ pc' = "search"
               /\ error' = error
          ELSE /\ config' = config
               /\ pc' = "error"
               /\ error' = e
    /\ UNCHANGED <<doc, rand_seed, it, solutions, solution, todo, receivers,
                   giver, event>>

\* itertools.permutations over the positions avail: every ordering of them, in
\* lexicographic order of the positions (first position varying slowest).
RemoveAt(s, i) == SubSeq(s, 1, i - 1) \o SubSeq(s, i + 1, Len(s))

PrependAll(x, seqs) == <<>> \o [i \in 1..Len(seqs) |-> <<x>> \o seqs[i]]

RECURSIVE PermutationsOf(_), PermutationsFrom(_, _)
PermutationsOf(avail) ==
    IF avail = <<>> THEN << <<>> >> ELSE PermutationsFrom(avail, 1)

PermutationsFrom(avail, q) ==
    IF q > Len(avail) THEN <<>>
    ELSE PrependAll(avail[q], PermutationsOf(RemoveAt(avail, q)))
             \o PermutationsFrom(avail, q + 1)

\* The orderings of the positions 1..n, for n = 0..MaxN (entry n + 1).
PositionPermutations ==
    <<PermutationsOf(<<>>)>>
        \o [n \in 1..MaxN |-> PermutationsOf(<<>> \o [i \in 1..n |-> i])]

\* Variant: the iterator yields its first tuple again in place of its last.
permutations_without_last(p, k) ==
    LET total == Len(PositionPermutations[Len(p) + 1])
        d == IF k = total /\ total > 1 THEN 1 ELSE k
    IN <<>> \o [i \in 1..Len(p) |-> p[PositionPermutations[Len(p) + 1][d][i]]]

\* it = itertools.permutations(participants): the k-th tuple drawn holds the
\* participants at the k-th ordering of the positions.
permutations(p, k) ==
    <<>> \o [i \in 1..Len(p) |-> p[PositionPermutations[Len(p) + 1][k][i]]]

\* Variant: only giver-before-receiver in the group's order is forbidden.
no_forbidden_group_one_way(sol, groups) ==
    \A i \in 1..Len(sol), g \in 1..Len(groups) :
        ~(\E a \in 1..Len(groups[g]), b \in 1..Len(groups[g]) :
              /\ a < b
              /\ sol[i].giver = groups[g][a]
              /\ sol[i].receiver = groups[g][b])

no_forbidden_group(sol, groups) ==
    \A i \in 1..Len(sol), g \in 1..Len(groups) :
        ~(sol[i].giver \in Range(groups[g])
            /\ sol[i].receiver \in Range(groups[g]))

\* Variant: only the first forbidden transaction is compared.
no_forbidden_transaction_first_only(sol, txs) ==
    \A i \in 1..Len(sol) :
        txs = <<>>
            \/ ~(sol[i].giver = txs[1].giver /\ sol[i].receiver = txs[1].receiver)

no_forbidden_transaction(sol, txs) ==
    \A i \in 1..Len(sol), f \in 1..Len(txs) :
        ~(sol[i].giver = txs[f].giver /\ sol[i].receiver = txs[f].receiver)

\* Variant: a transaction to oneself goes unnoticed.
give_to_himself_never(sol) == FALSE

give_to_himself(sol) == \E i \in 1..Len(sol) : sol[i].giver = sol[i].receiver

\* solution = [Transaction(participants[i], receivers[i]) for i in range(...)]
BuildSolution(p, recv) ==
    <<>> \o [i \in 1..Len(p) |-> Transaction(p[i], recv[i])]

\* Variant: the forbidden groups are not consulted.
AcceptsIgnoringGroups(cfg, sol) ==
    /\ ~give_to_himself(sol)
    /\ no_forbidden_transaction(sol, cfg[3])

Accepts(cfg, sol) ==
    /\ ~give_to_himself(sol)
    /\ no_forbidden_group(sol, cfg[2])
    /\ no_forbidden_transaction(sol, cfg[3])

\* One pass of find_solution's loop with a permutation left: next(it), then
\* the solution is built and tested; an accepted one is returned to
\* get_solutions, which appends it and calls find_solution again; after a
\* rejected one the loop goes on. Either way the next pass draws from the
\* same iterator.
FindSolutionDraw ==
    /\ prog = "noel"
    /\ pc = "search"
    /\ it < Fact(Len(config[1]))
    /\ it' = it + 1
    /\ solutions' =
           IF Accepts(config, BuildSolution(config[1],
                                            permutations(config[1], it + 1)))
           THEN Append(solutions,
                       BuildSolution(config[1], permutations(config[1], it + 1)))
           ELSE solutions
    /\ UNCHANGED <<doc, pc, rand_seed, config, error, solution, todo,
                   receivers, giver, event>>

\* The pass in which next(it) raises StopIteration: find_solution raises
\* NoMorePotentialSolutionException, get_solutions breaks and returns.
GetSolutionsReturn ==
    /\ prog = "noel"
    /\ pc = "search"
    /\ it >= Fact(Len(config[1]))
    /\ pc' = "collected"
    /\ UNCHANGED <<doc, rand_seed, config, error, it, solutions, solution,
                   todo, receivers, giver, event>>

\* random.choice(seq) under seed(s): seq[randbelow(len(seq))], a function of
\* the seed alone; the generator is abstracted to s modulo the length.
RandBelow(s, n) == s % n

Choice(s, seq) == seq[RandBelow(s, Len(seq)) + 1]

\* main, after get_solutions: 'No solutions found', or choose and print.
ChooseSolution ==
    /\ prog = "noel"
    /\ pc = "collected"
    /\ IF Len(solutions) = 0
       THEN /\ error' = [kind |-> "no_solutions", name |-> "",
                         forbidden_kind |-> ""]
            /\ pc' = "error"
            /\ solution' = solution
       ELSE /\ solution' = Choice(rand_seed[1], solutions)
            /\ pc' = "printed"
            /\ error' = error
    /\ UNCHANGED <<doc, rand_seed, config, it, solutions, todo, receivers,
                   giver, event>>

----------------------------------------------------------------------------
(* tirage_noel.py *)

TirageKeys == {"participants", "forbidden_groups"}

\* The exception tirage_noel's load_configuration raises, NoError otherwise.
tirage_load_configuration(k, p, groups) ==
    IF ~SchemaValid(TirageKeys, k)
    THEN [kind |-> "schema", name |-> "", forbidden_kind |-> ""]
    ELSE CheckGroups(p, groups, 1, 1)

\* main: load_configuration, then the first call of
\* try_generate_random_solution sets givers, receivers and solution.
TirageLoadConfiguration ==
    /\ prog = "tirage"
    /\ pc = "start"
    /\ LET e == tirage_load_configuration(keys, participants, forbidden_groups)
       IN IF e = NoError
          THEN /\ config' = <<participants, forbidden_groups>>
               /\ pc' = "generate"
               /\ error' = error
               /\ todo' = Range(participants)
               /\ receivers' = Range(participants)
          ELSE /\ config' = config
               /\ pc' = "error"
               /\ error' = e
               /\ UNCHANGED <<todo, receivers>>
    /\ UNCHANGED <<doc, rand_seed, it, solutions, solution, giver, event>>

\* Variant: the giver is left among its potential receivers.
potential_receivers_with_giver(recv, g) == recv

\* potential_receivers = set(receivers) minus the giver
potential_receivers(recv, g) == recv \ {g}

\* Variant: the search stops after the first group.
uses_forbidden_group_first_only(sol, groups) ==
    \E g \in DOMAIN sol :
        /\ groups # <<>>
        /\ g \in Range(groups[1])
        /\ sol[g] \in Range(groups[1])

uses_forbidden_group(sol, groups) ==
    \E g \in DOMAIN sol, i \in 1..Len(groups) :
        g \in Range(groups[i]) /\ sol[g] \in Range(groups[i])

\* One pass of the for loop with a receiver left: any giver not yet reached
\* (a set is iterated in no particular order), any potential receiver
\* (randrange picks the index).
TryGenerateStep ==
    /\ prog = "tirage"
    /\ pc = "generate"
    /\ \E g \in todo :
        /\ potential_receivers(receivers, g) # {}
        /\ \E r \in potential_receivers(receivers, g) :
            /\ solution' = (g :> r) @@ solution
            /\ receivers' = receivers \ {r}
        /\ giver' = <<g>>
        /\ todo' = todo \ {g}
    /\ event' = "assigned"
    /\ UNCHANGED <<doc, pc, rand_seed, config, error, it, solutions>>

\* One pass of the for loop with no receiver left: BadRandomSolutionException,
\* caught in main, and the while loop calls try_generate_random_solution again.
BadRandomSolution ==
    /\ prog = "tirage"
    /\ pc = "generate"
    /\ \E g \in todo :
        /\ potential_receivers(receivers, g) = {}
        /\ giver' = <<g>>
    /\ event' = "abandoned"
    /\ solution' = <<>>
    /\ todo' = Range(config[1])
    /\ receivers' = Range(config[1])
    /\ UNCHANGED <<doc, pc, rand_seed, config, error, it, solutions>>

\* The for loop is over: the candidate is returned and main either breaks out
\* of the while loop and prints it, or calls try_generate_random_solution again.
CandidateReturned ==
    /\ prog = "tirage"
    /\ pc = "generate"
    /\ todo = {}
    /\ IF ~uses_forbidden_group(solution, config[2])
       THEN /\ pc' = "printed"
            /\ event' = "accepted"
            /\ UNCHANGED <<solution, todo, receivers>>
       ELSE /\ pc' = pc
            /\ event' = "rejected"
            /\ solution' = <<>>
            /\ todo' = Range(config[1])
            /\ receivers' = Range(config[1])
    /\ UNCHANGED <<doc, rand_seed, config, error, it, solutions, giver>>

----------------------------------------------------------------------------
Next ==
    \/ GetArguments
    \/ LoadConfiguration
    \/ FindSolutionDraw
    \/ GetSolutionsReturn
    \/ ChooseSolution
    \/ TirageLoadConfiguration
    \/ TryGenerateStep
    \/ BadRandomSolution
    \/ CandidateReturned

Spec == Init /\ [][Next]_vars

\* The interpreter runs the one thread for as long as it has a step to take.
FairSpec == Spec /\ WF_vars(Next)

----------------------------------------------------------------------------
(* Vocabulary of the properties *)

Noel == prog = "noel"

Tirage == prog = "tirage"

N == Len(participants)

People == Range(participants)

Distinct == \A i \in 1..N, j \in 1..N : participants[i] = participants[j] => i = j

InGroup(g, r, groups) ==
    \E i \in 1..Len(groups) : g \in Range(groups[i]) /\ r \in Range(groups[i])

IsForbiddenPair(g, r, txs) ==
    \E i \in 1..Len(txs) : txs[i] = Transaction(g, r)

\* get_solutions has returned.
Collected ==
    /\ Noel
    /\ \/ pc \in {"collected", "printed"}
       \/ pc = "error" /\ error.kind = "no_solutions"

Unconstrained == forbidden_groups = <<>> /\ forbidden_transactions = <<>>

\* A list of transactions in which every participant gives once and receives
\* once, never to himself.
IsDerangementList(sol) ==
    /\ \A x \in People : Cardinality({i \in 1..Len(sol) : sol[i].giver = x}) = 1
    /\ \A x \in People :
           Cardinality({i \in 1..Len(sol) : sol[i].receiver = x}) = 1
    /\ \A i \in 1..Len(sol) :
           /\ sol[i].giver \in People
           /\ sol[i].receiver \in People
           /\ sol[i].giver # sol[i].receiver

\* The same of a giver -> receiver map.
IsDerangementMap(sol) ==
    /\ DOMAIN sol = People
    /\ {sol[x] : x \in DOMAIN sol} = People
    /\ \A x \in DOMAIN sol, y \in DOMAIN sol : sol[x] = sol[y] => x = y
    /\ \A x \in DOMAIN sol : sol[x] # x

\* The giver -> receiver maps over the participants that give no one to himself
\* and respect the forbidden groups and the forbidden pairs.
ValidAssignments(groups, txs) ==
    {f \in Permutations(People) :
        \A x \in People :
            /\ f[x] # x
            /\ ~InGroup(x, f[x], groups)
            /\ ~IsForbiddenPair(x, f[x], txs)}

\* The permutations of the positions of the participants list that do so.
ValidDraws ==
    {f \in Permutations(1..N) :
        \A i \in 1..N :
            /\ participants[f[i]] # participants[i]
            /\ ~InGroup(participants[i], participants[f[i]], forbidden_groups)
            /\ ~IsForbiddenPair(participants[i], participants[f[i]],
                                forbidden_transactions)}

\* The giver -> receiver map of a list of transactions.
AsMap(sol) ==
    [x \in {sol[i].giver : i \in 1..Len(sol)} |->
        sol[CHOOSE i \in 1..Len(sol) : sol[i].giver = x].receiver]

----------------------------------------------------------------------------
(* C1 *)

\* C1: when the participants are pairwise distinct, every solution in
\* get_solutions' list, the solution noel.py prints and the solution
\* tirage_noel.py prints is a bijection over the participants without a fixed
\* point: each participant gives exactly once, receives exactly once, and
\* never gives to himself.
C1_Bijection ==
    Distinct =>
        /\ Noel =>
               /\ \A k \in 1..Len(solutions) : IsDerangementList(solutions[k])
               /\ pc = "printed" => IsDerangementList(solution)
        /\ (Tirage /\ pc = "printed") => IsDerangementMap(solution)

C1_Witness ==
    /\ Noel
    /\ pc = "printed"
    /\ Distinct
    /\ N = 4
    /\ Len(solutions) >= 2

(* C2 *)

\* C2: no solution collected by the exhaustive strategy, and so neither the one
\* main prints, holds a transaction whose giver and receiver are in one
\* forbidden group or a transaction that is a forbidden (giver, receiver) pair.
C2_NoForbidden ==
    Noel =>
        \A sol \in Range(solutions) \cup (IF pc = "printed" THEN {solution} ELSE {}) :
            \A i \in 1..Len(sol) :
                /\ ~InGroup(sol[i].giver, sol[i].receiver, forbidden_groups)
                /\ ~IsForbiddenPair(sol[i].giver, sol[i].receiver,
                                    forbidden_transactions)

C2_Witness ==
    /\ Noel
    /\ pc = "printed"
    /\ N = 4
    /\ Distinct
    /\ Len(forbidden_groups) = 2
    /\ forbidden_transactions # <<>>

(* C3 *)

\* C3: whenever tirage_noel.py leaves its retry loop and prints a solution,
\* no transaction of it lies inside a forbidden group and none is a forbidden
\* (giver, receiver) pair of the configuration document.
C3_RandomRespectsConstraints ==
    (Tirage /\ pc = "printed") =>
        \A g \in DOMAIN solution :
            /\ ~InGroup(g, solution[g], forbidden_groups)
            /\ ~IsForbiddenPair(g, solution[g], forbidden_transactions)

C3_Witness ==
    /\ Tirage
    /\ pc = "printed"
    /\ event = "accepted"
    /\ Cardinality(People) = 4
    /\ Len(forbidden_groups) = 2

(* C4 *)

\* The number of permutations of n elements without a fixed point.
RECURSIVE DerangementCount(_)
DerangementCount(n) ==
    IF n = 0 THEN 1
    ELSE IF n = 1 THEN 0
    ELSE (n - 1) * (DerangementCount(n - 1) + DerangementCount(n - 2))

\* C4 as stated: with N >= 2 distinct participants and no constraint,
\* get_solutions returns exactly (N-1)! solutions.
C4_Original ==
    (Collected /\ Distinct /\ N >= 2 /\ Unconstrained) =>
        Len(solutions) = Fact(N - 1)

\* C4, amended: with N >= 2 distinct participants and no constraint,
\* get_solutions returns exactly the number of derangements of N elements
\* (1, 2, 9, 44 for N = 2, 3, 4, 5), which is (N-1)! only up to N = 3.
C4_DerangementCount ==
    (Collected /\ Distinct /\ N >= 2 /\ Unconstrained) =>
        Len(solutions) = DerangementCount(N)

C4_Witness ==
    /\ Collected
    /\ Distinct
    /\ N = 4
    /\ Unconstrained
    /\ Len(solutions) = 9

(* C5 *)

ABC == <<"A", "B", "C">>

C5_Config ==
    /\ Collected
    /\ participants = ABC
    /\ forbidden_groups = <<<<"A", "B">>>>
    /\ forbidden_transactions = <<>>

\* C5 as stated: for participants [A,B,C] and the forbidden group [A,B] the
\* exhaustive strategy finds exactly one solution, A->C, B->A, C->B.
C5_Original ==
    C5_Config =>
        solutions = <<BuildSolution(ABC, <<"C", "A", "B">>)>>

\* C5, amended: for participants [A,B,C] and the forbidden group [A,B] the
\* exhaustive strategy finds no solution: both derangements are rejected
\* (A->B in the one, B->A in the other), get_solutions returns the empty list
\* and main ends on 'No solutions found'.
C5_NoSolution ==
    C5_Config =>
        /\ solutions = <<>>
        /\ pc # "printed"
        /\ pc = "error" => error.kind = "no_solutions"

C5_Witness ==
    /\ C5_Config
    /\ pc = "error"
    /\ error.kind = "no_solutions"
    /\ it = 6

(* C6 *)

\* C6: when the configuration is accepted and no assignment is valid, the
\* exhaustive strategy ends: main reaches the 'No solutions found' error with
\* all N! permutations drawn, an empty list and nothing selected, and no
\* solution is ever printed.
C6_Terminates ==
    /\ (Noel /\ pc = "search" /\ it = 0 /\ ValidDraws = {})
           ~> /\ pc = "error"
              /\ error.kind = "no_solutions"
              /\ it = Fact(N)
              /\ solutions = <<>>
              /\ solution = <<>>
    /\ [](Noel /\ pc \in {"collected", "printed"} /\ ValidDraws = {}
             => pc = "collected" /\ it = Fact(N) /\ solutions = <<>>)

C6_Witness ==
    /\ Noel
    /\ pc = "error"
    /\ error.kind = "no_solutions"
    /\ N = 4
    /\ forbidden_groups = <<Prefix(4)>>
    /\ it = 24

(* C7 *)

\* C7 as stated: whenever --seed is given, 0 included, the solution printed is
\* the one random.choice yields under that seed, whatever the time of the run.
C7_SeedDeterministic ==
    (Noel /\ pc = "printed" /\ seedArg # <<>>) =>
        /\ rand_seed = seedArg
        /\ solution = Choice(seedArg[1], solutions)

(* C8 *)

RECURSIVE GroupMentions(_, _)
GroupMentions(groups, i) ==
    IF i > Len(groups) THEN <<>>
    ELSE [j \in 1..Len(groups[i]) |-> <<groups[i][j], "groups">>]
             \o GroupMentions(groups, i + 1)

RECURSIVE TransactionMentions(_, _)
TransactionMentions(txs, i) ==
    IF i > Len(txs) THEN <<>>
    ELSE <<<<txs[i].giver, "transactions">>, <<txs[i].receiver, "transactions">>>>
             \o TransactionMentions(txs, i + 1)

\* Every name the document mentions, in document order.
Mentions ==
    GroupMentions(forbidden_groups, 1)
        \o TransactionMentions(forbidden_transactions, 1)

Misspelt == {i \in 1..Len(Mentions) : Mentions[i][1] \notin People}

FirstMisspelt == Mentions[CHOOSE i \in Misspelt : \A j \in Misspelt : i <= j]

\* C8: noel.py's load_configuration, on a well-formed document, raises the
\* error naming the first mentioned name (groups before transactions, giver
\* before receiver) that is not a participant, and then nothing is searched;
\* when every name is a participant it returns the three collections as they
\* are in the document.
C8_FirstViolation ==
    (Noel /\ pc \notin {"start", "args"} /\ keys = AllKeys) =>
        IF Misspelt # {}
        THEN /\ pc = "error"
             /\ error = spelling_error(FirstMisspelt[1], FirstMisspelt[2])
             /\ config = <<>>
             /\ it = 0
             /\ solutions = <<>>
             /\ solution = <<>>
        ELSE /\ error.kind # "spelling"
             /\ config = <<participants, forbidden_groups,
                           forbidden_transactions>>

C8_Witness ==
    /\ Noel
    /\ pc = "error"
    /\ error.kind = "spelling"
    /\ \E i \in Misspelt : Mentions[i][2] = "groups" /\ Mentions[i][1] # error.name
    /\ \E i \in Misspelt : Mentions[i][2] = "transactions"

(* C9 *)

\* Every dict try_generate_random_solution can return, over the orders in
\* which the set of givers is iterated and the indexes randrange picks.
RECURSIVE try_generate_random_solution(_, _, _)
try_generate_random_solution(givers, recv, sol) ==
    IF givers = {} THEN {sol}
    ELSE UNION {
           IF potential_receivers(recv, g) = {} THEN {}
           ELSE UNION {try_generate_random_solution(
                           givers \ {g}, recv \ {r}, (g :> r) @@ sol) :
                       r \in potential_receivers(recv, g)} :
           g \in givers}

\* A candidate is abandoned in a pass of the for loop exactly when the giver
\* of that pass has no receiver left but itself, and then the next candidate
\* starts from scratch.
C9_AbandonStep ==
    (Tirage /\ pc = "generate" /\ todo # {}) =>
        /\ (event' = "abandoned") <=> (receivers \ {giver'[1]} = {})
        /\ event' = "abandoned" =>
               /\ pc' = "generate"
               /\ solution' = <<>>
               /\ todo' = People
               /\ receivers' = People

\* C9: in the random retry strategy a candidate is abandoned exactly when a
\* giver's remaining receivers minus the giver are empty; that is never
\* reported as an error; a solution is printed only if some valid assignment
\* exists, and the loop can produce a valid assignment exactly when one exists.
C9_RetryLoop ==
    /\ [][C9_AbandonStep]_vars
    /\ [](Tirage /\ pc = "error" => error.kind \in {"schema", "spelling"})
    /\ [](Tirage /\ pc = "printed"
             => solution \in ValidAssignments(forbidden_groups, <<>>))
    /\ [](Tirage /\ pc = "generate" /\ event = ""
             => (ValidAssignments(forbidden_groups, <<>>) # {}
                   <=> \E s \in try_generate_random_solution(People, People, <<>>) :
                           ~uses_forbidden_group(s, forbidden_groups)))

C9_Witness ==
    /\ Tirage
    /\ pc = "generate"
    /\ event = "abandoned"
    /\ Cardinality(People) = 3
    /\ giver = <<"C">>

(* C10 *)

\* C10: when the participants are pairwise distinct, the list get_solutions
\* returns holds every valid assignment exactly once and nothing else, the
\* i-th transaction of every solution is given by the i-th participant, and
\* no more than N! permutations were drawn.
C10_ExactlyTheValid ==
    (Collected /\ Distinct) =>
        /\ {AsMap(solutions[k]) : k \in 1..Len(solutions)}
               = ValidAssignments(forbidden_groups, forbidden_transactions)
        /\ Len(solutions)
               = Cardinality(ValidAssignments(forbidden_groups,
                                              forbidden_transactions))
        /\ \A k \in 1..Len(solutions) :
               /\ Len(solutions[k]) = N
               /\ \A i \in 1..N : solutions[k][i].giver = participants[i]
        /\ it = Fact(N)

C10_Witness ==
    /\ Collected
    /\ Distinct
    /\ N = 4
    /\ forbidden_groups # <<>>
    /\ forbidden_transactions # <<>>
    /\ Len(solutions) >= 3
====
